---- MODULE Spec2Model ----
(***************************************************************************)
(* Oil-spill simulation: the mesh (cells.py, mesh.py), the explicit upwind *)
(* flux solver and its restart files (solver.py), driven from main.py.     *)
(*                                                                         *)
(* Numbers.  The program computes in IEEE doubles.  The model computes in  *)
(* exact rationals <<n, d>> (d > 0, lowest terms) extended by the three    *)
(* non-finite doubles numpy produces instead of raising: <<1, 0>> = +inf,  *)
(* <<-1, 0>> = -inf, <<0, 0>> = nan.  Rounding error is not modelled.      *)
(* Points have z = 0 (a planar mesh), so that |normal| = |edge| exactly.   *)
(***************************************************************************)
EXTENDS Integers, Sequences, FiniteSets, TLC

VARIABLES
    meshfile,          \* what meshio.read returns: points, cell groups, and the
                       \* value of the Gaussian at each created cell (cells.py:99)
    config,            \* the TOML configuration handed to main.py
    disk,              \* restart folders: folder name -> files
    pc,                \* position of the program
    err,               \* the exception that ended the program, or "none"
    cells,             \* Mesh._cells
    tStart, tEnd, nt, dt,      \* Solver._tStart, _tEnd, _nt, dt
    step,              \* loop variable of run_simulation
    fishing_oil_data,  \* the (time, regionTotal) sequence of run_simulation
    history,           \* fields after 0, 1, 2, ... calls of calculate() in this run
    saved,             \* what the solver held when save_state last ran
    launches,          \* number of Solver objects constructed so far
    probe,             \* arguments and result of a direct flux_function call
    writes,            \* per cell, the assignments to oil_value made by the
                       \* most recent call of calculate()
    searched           \* positions of the cells whose compute_neighbors has run
                       \* on a mesh built without a solver

vars == <<meshfile, config, disk, pc, err, cells, tStart, tEnd, nt, dt, step,
          fishing_oil_data, history, saved, launches, probe, writes, searched>>

None == "none"

(***************************************************************************)
(* Extended rational arithmetic (float / numpy.float64 operations).        *)
(***************************************************************************)
Abs(n) == IF n < 0 THEN -n ELSE n

Sign(n) == IF n > 0 THEN 1 ELSE IF n < 0 THEN -1 ELSE 0

RECURSIVE GCD(_, _)
GCD(a, b) == IF b = 0 THEN a ELSE GCD(b, a % b)

Norm(n, d) ==
    IF d = 0 THEN <<Sign(n), 0>>
    ELSE LET g == GCD(Abs(n), Abs(d)) IN <<Sign(d) * (n \div g), Abs(d) \div g>>

R(n) == <<n, 1>>

Q(n, d) == Norm(n, d)

NaN == <<0, 0>>

IsFinite(x) == x[2] # 0

RNeg(x) == <<-x[1], x[2]>>

RAdd(x, y) ==
    IF x[2] # 0 /\ y[2] # 0
    THEN LET g == GCD(x[2], y[2])
         IN  Norm(x[1] * (y[2] \div g) + y[1] * (x[2] \div g), (x[2] \div g) * y[2])
    ELSE IF x[2] # 0 THEN y
    ELSE IF y[2] # 0 THEN x
    ELSE IF x = y THEN x ELSE NaN

RSub(x, y) == RAdd(x, RNeg(y))

\* common factors are cancelled before multiplying
RMul(x, y) ==
    IF x[2] # 0 /\ y[2] # 0
    THEN LET g1 == GCD(Abs(x[1]), y[2])
             g2 == GCD(Abs(y[1]), x[2])
         IN  Norm((x[1] \div g1) * (y[1] \div g2), (x[2] \div g2) * (y[2] \div g1))
    ELSE Norm(x[1] * y[1], x[2] * y[2])

\* numpy division: x / 0 is +-inf or nan, never an exception
RDiv(x, y) ==
    LET s == IF y[1] < 0 THEN -1 ELSE 1
    IN  Norm(x[1] * y[2] * s, x[2] * Abs(y[1]))

RAbs(x) == <<Abs(x[1]), x[2]>>

RLt(x, y) ==
    LET g == IF x[2] # 0 /\ y[2] # 0 THEN GCD(x[2], y[2]) ELSE 1
    IN  x[1] * (y[2] \div g) < y[1] * (x[2] \div g)

RLe(x, y) ==
    LET g == IF x[2] # 0 /\ y[2] # 0 THEN GCD(x[2], y[2]) ELSE 1
    IN  x[1] * (y[2] \div g) <= y[1] * (x[2] \div g) /\ x # NaN /\ y # NaN

RECURSIVE RSum(_)
RSum(s) == IF s = <<>> THEN R(0) ELSE RAdd(RSum(SubSeq(s, 1, Len(s) - 1)), s[Len(s)])

\* vectors are sequences of rationals
Dot(n, v) == RSum([k \in 1..Len(n) |-> RMul(n[k], v[k])])

VSub(a, b) == [k \in 1..Len(a) |-> RSub(a[k], b[k])]

VAdd(a, b) == [k \in 1..Len(a) |-> RAdd(a[k], b[k])]

VScale(c, a) == [k \in 1..Len(a) |-> RMul(c, a[k])]

Range(s) == {s[k] : k \in 1..Len(s)}

(***************************************************************************)
(* cells.py                                                                *)
(***************************************************************************)
\* np.mean(points, axis=0)
Mean(points) ==
    [c \in 1..3 |-> RDiv(RSum([k \in 1..Len(points) |-> points[k][c]]), R(Len(points)))]

\* Cell.__init__
Cell(point_ids, idx, points) ==
    LET midpoint == Mean(points)
    IN  [point_ids |-> point_ids,
         idx       |-> idx,
         midpoint  |-> midpoint,
         neighbors |-> [k \in 1..Len(point_ids) |-> -1],
         points    |-> points,
         velocity  |-> <<RSub(midpoint[2], RMul(Q(1, 5), midpoint[1])),
                         RNeg(midpoint[1]),
                         R(0)>>]

\* the ValueError checks of Triangle.__init__
TriangleRaises(point_ids, points) == Len(point_ids) # 3 \/ Len(points) # 3

\* determinant formula of Triangle.__init__
Area(points) ==
    RMul(Q(1, 2),
         RAbs(RSub(RMul(RSub(points[1][1], points[3][1]), RSub(points[2][2], points[1][2])),
                   RMul(RSub(points[1][1], points[2][1]), RSub(points[3][2], points[1][2])))))

\* one outward normal, scaled to the edge length.  With z = 0 the norm of
\* the normal equals the norm of the edge, so normal / |normal| * |v| is the
\* normal itself unless the edge has length 0, where 0 / 0 gives nan.
EdgeNormal(p1, p2, midpoint) ==
    LET v      == VSub(p2, p1)
        normal == <<RNeg(v[2]), v[1], R(0)>>
        flip   == IF RLt(Dot(normal, VSub(p1, midpoint)), R(0))
                  THEN VScale(R(-1), normal) ELSE normal
    IN  IF v[1] = R(0) /\ v[2] = R(0) /\ v[3] = R(0)
        THEN <<NaN, NaN, NaN>> ELSE flip

\* Triangle.__init__ when it does not raise; gauss stands for the value of
\* np.exp(-((mx - 0.35)^2 + (my - 0.45)^2) / 0.01) at this midpoint
Triangle(point_ids, idx, points, gauss) ==
    LET base == Cell(point_ids, idx, points)
    IN  base @@
        [type      |-> "triangle",
         oil_value |-> gauss,
         area      |-> Area(points),
         normals   |-> [i \in 1..3 |->
                          EdgeNormal(points[i], points[(i % 3) + 1], base.midpoint)]]

\* Line.__init__
Line(point_ids, idx, points) ==
    Cell(point_ids, idx, points) @@ [type |-> "line", oil_value |-> R(0)]

\* the first edge i (0-based) of pts whose two ends both belong to other
RECURSIVE FirstEdge(_, _, _)
FirstEdge(pts, other, i) ==
    IF i >= Len(pts) THEN -1
    ELSE IF pts[i + 1] \in Range(other) /\ pts[((i + 1) % Len(pts)) + 1] \in Range(other)
         THEN i
         ELSE FirstEdge(pts, other, i + 1)

\* Triangle.compute_neighbors: the loop over enumerate(cells), after having
\* visited cells[1..k]
RECURSIVE NeighborScan(_, _, _)
NeighborScan(self, cs, k) ==
    IF k = 0 THEN self.neighbors
    ELSE LET prev == NeighborScan(self, cs, k - 1)
             i    == FirstEdge(self.point_ids, cs[k].point_ids, 0)
         IN  IF Cardinality(Range(self.point_ids) \cap Range(cs[k].point_ids)) = 2 /\ i >= 0
             THEN [prev EXCEPT ![i + 1] = k - 1]
             ELSE prev

\* cell.compute_neighbors(cells): Triangle's search, Line's and Cell's pass
compute_neighbors(self, cs) ==
    IF self.type = "triangle"
    THEN [self EXCEPT !.neighbors = NeighborScan(self, cs, Len(cs))]
    ELSE self

\* a search that also enters its result into the cells it found
compute_neighbors_symmetric(cs, x) ==
    LET found == compute_neighbors(cs[x], cs).neighbors
    IN  [k \in 1..Len(cs) |->
            IF k = x \/ \E i \in 1..Len(found) : found[i] = k - 1
            THEN compute_neighbors(cs[k], cs)
            ELSE cs[k]]

\* X.compute_neighbors(cells) for the cell X at position x of the list: the
\* only assignment of the method is to self.neighbors (line 148)
compute_neighbors_on(cs, x) == [cs EXCEPT ![x] = compute_neighbors(cs[x], cs)]

(***************************************************************************)
(* mesh.py                                                                 *)
(***************************************************************************)
\* the (type, point ids) pairs of the file in the order the two loops of
\* Mesh.__init__ visit them, vertex groups skipped
RECURSIVE Flatten(_)
Flatten(groups) ==
    IF groups = <<>> THEN <<>>
    ELSE LET g == groups[Len(groups)]
             rest == Flatten(SubSeq(groups, 1, Len(groups) - 1))
         IN  IF g.type = "vertex" THEN rest
             ELSE rest \o [k \in 1..Len(g.data) |-> [type |-> g.type, ids |-> g.data[k]]]

\* CellFactory.__call__ raises KeyError for a type that was not registered
FactoryRaises(type) == type \notin {"triangle", "line"}

\* Mesh.__init__: result after the first k entries; building stops at the
\* first constructor that raises
RECURSIVE BuildCells(_, _, _)
BuildCells(mf, items, k) ==
    IF k = 0 THEN [err |-> None, cells |-> <<>>]
    ELSE LET prev == BuildCells(mf, items, k - 1)
             it   == items[k]
             pts  == [j \in 1..Len(it.ids) |-> mf.points[it.ids[j] + 1]]
             idx  == Len(prev.cells)
         IN  IF prev.err # None THEN prev
             ELSE IF FactoryRaises(it.type) THEN [prev EXCEPT !.err = "KeyError"]
             ELSE IF it.type = "triangle"
                  THEN IF TriangleRaises(it.ids, pts)
                       THEN [prev EXCEPT !.err = "ValueError"]
                       ELSE [prev EXCEPT !.cells =
                                Append(@, Triangle(it.ids, idx, pts, mf.gauss[idx + 1]))]
                  ELSE [prev EXCEPT !.cells = Append(@, Line(it.ids, idx, pts))]

MeshNew(mf) == BuildCells(mf, Flatten(mf.groups), Len(Flatten(mf.groups)))

\* a search in which each cell looks only at the cells created before it
find_neighbors_earlier(cs) ==
    [k \in 1..Len(cs) |-> compute_neighbors(cs[k], SubSeq(cs, 1, k))]

\* Mesh.find_neighbors
find_neighbors(cs) == [k \in 1..Len(cs) |-> compute_neighbors(cs[k], cs)]

\* the rectangle without its right and upper border
fishing_cells_open(cs, x_min, x_max, y_min, y_max) ==
    {k \in 1..Len(cs) :
        /\ cs[k].type = "triangle"
        /\ RLe(x_min, cs[k].midpoint[1]) /\ RLt(cs[k].midpoint[1], x_max)
        /\ RLe(y_min, cs[k].midpoint[2]) /\ RLt(cs[k].midpoint[2], y_max)}

\* Mesh.fishing_cells: the positions (1-based) of the selected cells
fishing_cells(cs, x_min, x_max, y_min, y_max) ==
    {k \in 1..Len(cs) :
        /\ cs[k].type = "triangle"
        /\ RLe(x_min, cs[k].midpoint[1]) /\ RLe(cs[k].midpoint[1], x_max)
        /\ RLe(y_min, cs[k].midpoint[2]) /\ RLe(cs[k].midpoint[2], y_max)}

(***************************************************************************)
(* solver.py: flux and one time step                                       *)
(***************************************************************************)
Field(cs) == [k \in 1..Len(cs) |-> cs[k].oil_value]

WithField(cs, f) == [k \in 1..Len(cs) |-> [cs[k] EXCEPT !.oil_value = f[k]]]

\* the upwind choice reversed
flux_function_downwind(a, b, n, v) ==
    LET angle == Dot(n, v)
    IN  IF RLt(R(0), angle) THEN RMul(b, angle) ELSE RMul(a, angle)

\* Solver.flux_function
flux_function(a, b, n, v) ==
    LET angle == Dot(n, v)
    IN  IF RLt(R(0), angle) THEN RMul(a, angle) ELSE RMul(b, angle)

\* the inner loop of calculate() for cell k: the value of `up` after the
\* first i entries of cell.neighbors; u is the snapshot
RECURSIVE Up(_, _, _, _, _)
Up(cs, u, k, dt_, i) ==
    IF i = 0 THEN R(0)
    ELSE LET prev == Up(cs, u, k, dt_, i - 1)
             ngh  == cs[k].neighbors[i]
         IN  IF ngh < 0 THEN prev
             ELSE LET normal   == cs[k].normals[i]
                      area     == cs[k].area
                      velocity == VScale(Q(1, 2), VAdd(cs[k].velocity, cs[ngh + 1].velocity))
                  IN  RSub(prev, RMul(RDiv(dt_, area),
                                      flux_function(u[k], u[ngh + 1], normal, velocity)))

\* the outer loop of calculate(): u_new after the cells order[1..j] were visited
RECURSIVE ComputeLoop(_, _, _, _, _)
ComputeLoop(cs, u, dt_, order, j) ==
    IF j = 0 THEN [k \in 1..Len(cs) |-> R(0)]
    ELSE LET prev == ComputeLoop(cs, u, dt_, order, j - 1)
             k    == order[j]
         IN  [prev EXCEPT ![k] = RAdd(u[k], Up(cs, u, k, dt_, Len(cs[k].neighbors)))]

\* calculate() with its first loop visiting the cells in the given order:
\* snapshot, compute every new value, then commit
CalcVisit(cs, dt_, order) ==
    LET u     == Field(cs)
        u_new == ComputeLoop(cs, u, dt_, order, Len(order))
    IN  WithField(cs, u_new)

\* a step that writes each new value into the live field at once
RECURSIVE InPlaceLoop(_, _, _)
InPlaceLoop(cs, dt_, j) ==
    IF j = 0 THEN cs
    ELSE LET prev == InPlaceLoop(cs, dt_, j - 1)
             u    == Field(prev)
         IN  [prev EXCEPT ![j].oil_value =
                 RAdd(u[j], Up(prev, u, j, dt_, Len(prev[j].neighbors)))]

calculate_inplace(cs, dt_) == InPlaceLoop(cs, dt_, Len(cs))

\* a step that also builds every cell anew, which resets its neighbors
calculate_rebuilding(cs, dt_) ==
    [k \in 1..Len(cs) |->
        [CalcVisit(cs, dt_, [j \in 1..Len(cs) |-> j])[k]
            EXCEPT !.neighbors = [i \in 1..Len(@) |-> -1]]]

\* Solver.calculate: enumerate(self._mesh.cells()) visits the cells in list order
calculate(cs, dt_) == CalcVisit(cs, dt_, [k \in 1..Len(cs) |-> k])

\* a step that has written the cells before the j-th into the live field
\* when the exception is raised
calculate_raising_inplace(cs, dt_, j) == InPlaceLoop(cs, dt_, j - 1)

\* calculate() left by an exception raised while its first loop (lines
\* 67-76) works on the j-th cell: the new values of the cells before it are
\* in the local array u_new, which is dropped; line 79 was never reached
calculate_raising(cs, dt_, j) ==
    LET u     == Field(cs)
        u_new == ComputeLoop(cs, u, dt_, [k \in 1..Len(cs) |-> k], j - 1)
    IN  cs

\* the second loop of calculate() (lines 78-79): how often each cell's
\* oil_value has been assigned once the loop has visited the first j cells
RECURSIVE CommitWrites(_, _)
CommitWrites(cs, j) ==
    IF j = 0 THEN [k \in 1..Len(cs) |-> 0]
    ELSE [CommitWrites(cs, j - 1) EXCEPT ![j] = @ + 1]

\* sum(cell.oil_value for cell in ...) over the selected positions, in list order
RECURSIVE SumSel(_, _, _)
SumSel(f, S, k) ==
    IF k = 0 THEN R(0)
    ELSE IF k \in S THEN RAdd(SumSel(f, S, k - 1), f[k]) ELSE SumSel(f, S, k - 1)

\* the region total of run_simulation (lines 97-99, 108, 114)
RegionTotal(cs, borders) ==
    SumSel(Field(cs),
           fishing_cells(cs, borders[1][1], borders[1][2], borders[2][1], borders[2][2]),
           Len(cs))

\* Python's max() and min() over a non-empty sequence
RECURSIVE PyMax(_)
PyMax(s) ==
    IF Len(s) = 1 THEN s[1]
    ELSE LET m == PyMax(SubSeq(s, 1, Len(s) - 1))
         IN  IF RLt(m, s[Len(s)]) THEN s[Len(s)] ELSE m

RECURSIVE PyMin(_)
PyMin(s) ==
    IF Len(s) = 1 THEN s[1]
    ELSE LET m == PyMin(SubSeq(s, 1, Len(s) - 1))
         IN  IF RLt(s[Len(s)], m) THEN s[Len(s)] ELSE m

(***************************************************************************)
(* solver.py: restart files.  A folder holds oil_values.txt (a sequence of *)
(* numbers) and simulation_data.txt (a sequence of <<key, value>> lines),  *)
(* each with a flag telling whether the file exists.  str(float) followed  *)
(* by float(str) returns the same double, so a number is stored as itself. *)
(***************************************************************************)
Folder(oil_exists, oil_values, sim_exists, simulation_data) ==
    [oil_exists |-> oil_exists, oil_values |-> oil_values,
     sim_exists |-> sim_exists, simulation_data |-> simulation_data]

NoFolder == Folder(FALSE, <<>>, FALSE, <<>>)

\* the files save_state writes
SavedFiles(cs, tStart_, tEnd_, cfg) ==
    Folder(TRUE, Field(cs), TRUE,
        << <<"tStart", tStart_>>,
           <<"tEnd", tEnd_>>,
           <<"meshName", cfg.meshName>>,
           <<"max_oil", PyMax(Field(cs))>>,
           <<"min_oil", PyMin(Field(cs))>>,
           <<"total_oil", SumSel(Field(cs), 1..Len(cs), Len(cs))>>,
           <<"fishing_grounds_oil", RegionTotal(cs, cfg.borders)>>,
           <<"fishing_borders", cfg.borders>> >>)

\* load_state lines 276-280
LoadRaises(folder) == ~folder.oil_exists \/ ~folder.sim_exists

\* a load that keeps only the cells it paired with a value
LoadValues_paired(cs, oil_values) ==
    [k \in 1..(IF Len(oil_values) < Len(cs) THEN Len(oil_values) ELSE Len(cs)) |->
        [cs[k] EXCEPT !.oil_value = oil_values[k]]]

\* load_state lines 282-285: zip stops at the shorter of the two sequences
LoadValues(cs, oil_values) ==
    [k \in 1..Len(cs) |->
        IF k <= Len(oil_values) THEN [cs[k] EXCEPT !.oil_value = oil_values[k]] ELSE cs[k]]

\* load_state lines 287-293: the last current_time line sets _tStart
RECURSIVE LoadTime(_, _)
LoadTime(lines, tStart_) ==
    IF lines = <<>> THEN tStart_
    ELSE LET l == lines[Len(lines)]
         IN  IF l[1] = "current_time" THEN l[2]
             ELSE LoadTime(SubSeq(lines, 1, Len(lines) - 1), tStart_)

\* int(x) for a finite rational: truncation toward zero
Trunc(x) == Sign(x[1]) * (Abs(x[1]) \div x[2])

(***************************************************************************)
(* Bounds and inputs                                                       *)
(***************************************************************************)
MaxSteps == 2        \* largest nSteps of a configuration

MaxVals == 5         \* longest oil_values.txt found in a restart folder

MaxLaunches == 2     \* Solver objects constructed in one behaviour

MaxCells == 3        \* cell entries of the meshes of SpecMesh

P(x, y) == <<R(x), R(y), R(0)>>

TriGroup(d) == [type |-> "triangle", data |-> d]

LineGroup(d) == [type |-> "line", data |-> d]

VertexGroup(d) == [type |-> "vertex", data |-> d]

\* two triangles of equal area, no boundary lines
MeshSquare ==
    [name |-> "square", points |-> <<P(-2, -2), P(-2, -1), P(2, 0), P(2, -1)>>,
     groups |-> <<TriGroup(<< <<0, 1, 2>>, <<0, 2, 3>> >>)>>]

\* two triangles with two boundary lines, in the order gmsh writes the groups
MeshBoundary ==
    [name |-> "boundary", points |-> <<P(-2, -2), P(0, -2), P(2, 0), P(0, 0)>>,
     groups |-> <<VertexGroup(<< <<0>>, <<2>> >>),
                  LineGroup(<< <<0, 1>>, <<2, 3>> >>),
                  TriGroup(<< <<0, 1, 2>>, <<0, 2, 3>> >>)>>]

\* one triangle whose three edges are boundary lines
MeshClosedTri ==
    [name |-> "closedtri", points |-> <<P(0, 0), P(1, 0), P(0, 1)>>,
     groups |-> <<LineGroup(<< <<0, 1>>, <<1, 2>>, <<2, 0>> >>),
                  TriGroup(<< <<0, 1, 2>> >>)>>]

\* the four faces of a tetrahedron: every edge is shared by two triangles
MeshTetra ==
    [name |-> "tetra", points |-> <<P(-1, -1), P(-1, 0), P(-2, 0), P(0, -1)>>,
     groups |-> <<TriGroup(<< <<0, 1, 3>>, <<1, 2, 3>>, <<2, 0, 3>>, <<0, 1, 2>> >>)>>]

\* two triangles of areas 1/2 and 1
MeshUnequal ==
    [name |-> "unequal", points |-> <<P(-2, -1), P(-1, -1), P(-2, -2), P(2, 1)>>,
     groups |-> <<TriGroup(<< <<0, 1, 2>>, <<0, 3, 1>> >>)>>]

\* a triangle of three collinear points next to a proper one
MeshCollinear ==
    [name |-> "collinear", points |-> <<P(0, 0), P(1, 0), P(2, 0), P(0, 1)>>,
     groups |-> <<TriGroup(<< <<0, 1, 2>>, <<0, 1, 3>> >>)>>]

SolverMeshes ==
    {MeshSquare, MeshBoundary, MeshClosedTri, MeshTetra, MeshUnequal, MeshCollinear}

\* values of the initial Gaussian, one per created cell
GaussChoices == {[k \in 1..4 |-> R(1)], [k \in 1..4 |-> Q(k, 4)]}

BorderChoices ==
    { << <<R(-2), R(0)>>, <<R(-2), R(0)>> >>,
      << <<R(0), Q(2, 3)>>, <<Q(-4, 3), R(1)>> >> }

OilFile(n) == [k \in 1..n |-> Q(k, 4)]

SimFiles ==
    {<< <<"current_time", c>>, <<"remaining_steps", 1>> >> : c \in {R(0), Q(1, 2), R(1)}}

\* a file missing, too few or too many values, or as many values as cells
RestartFolders ==
    {Folder(FALSE, <<>>, TRUE, <<>>), Folder(TRUE, OilFile(1), FALSE, <<>>)}
    \cup {Folder(TRUE, OilFile(n), TRUE, <<>>) : n \in {1, MaxVals}}
    \cup {Folder(TRUE, OilFile(n), TRUE, s) : n \in {2, 4}, s \in SimFiles}

NoSave == [by |-> 0, field |-> <<>>, remaining |-> 0]

NoProbe == [a |-> R(0), b |-> R(0), n |-> <<>>, v |-> <<>>, called |-> FALSE, result |-> R(0)]

(***************************************************************************)
(* The program: main.py runs one configuration                             *)
(***************************************************************************)
Init ==
    /\ \E m \in SolverMeshes, g \in GaussChoices :
          meshfile = [points |-> m.points, groups |-> m.groups, gauss |-> g, name |-> m.name]
    /\ \E n \in -1..MaxSteps, b \in BorderChoices, r \in {"", "restart_in"} :
          config = [nSteps |-> n, tStart |-> R(0), tEnd |-> R(1), meshName |-> meshfile.name,
                    borders |-> b, restartFile |-> r]
    /\ \E f \in RestartFolders :
          disk = [restart_in |-> IF config.restartFile = "" THEN NoFolder ELSE f,
                  result     |-> NoFolder]
    /\ pc = "start"
    /\ err = None
    /\ cells = <<>>
    /\ tStart = R(0) /\ tEnd = R(0) /\ nt = 0 /\ dt = R(0)
    /\ step = 0
    /\ fishing_oil_data = <<>>
    /\ history = <<>>
    /\ saved = NoSave
    /\ launches = 0
    /\ probe = NoProbe
    /\ writes = <<>>
    /\ searched = {}

\* TomlProcessor.read_toml_file, lines 82-90: the only change made to nSteps
read_toml_file(cfg) == [cfg EXCEPT !.nSteps = IF @ > 500 THEN 500 ELSE @]

Fail(e, cs) ==
    /\ pc' = "error" /\ err' = e /\ cells' = cs
    /\ UNCHANGED <<tStart, tEnd, nt, dt>>

\* process_single_file lines 109-114: read_toml_file, then Solver(config),
\* which builds the mesh, finds the neighbors, computes dt and loads the
\* restart state when restartFile is set
SolverInit ==
    /\ pc = "start"
    /\ launches' = launches + 1
    /\ UNCHANGED <<meshfile, config, disk, step, fishing_oil_data, history, saved, probe, writes, searched>>
    /\ LET cfg == read_toml_file(config)
           m   == MeshNew(meshfile)
           cs  == find_neighbors(m.cells)
           dt_ == RDiv(RSub(cfg.tEnd, cfg.tStart), R(cfg.nSteps))
           fld == disk[cfg.restartFile]
           t0  == LoadTime(fld.simulation_data, cfg.tStart)
       IN  IF m.err # None THEN Fail(m.err, <<>>)
           ELSE IF cfg.nSteps = 0 THEN Fail("ZeroDivisionError", cs)
           ELSE IF cfg.restartFile = ""
                THEN /\ pc' = "ready" /\ err' = None /\ cells' = cs
                     /\ tStart' = cfg.tStart /\ tEnd' = cfg.tEnd
                     /\ nt' = cfg.nSteps /\ dt' = dt_
           ELSE IF LoadRaises(fld) THEN Fail("FileNotFoundError", cs)
           ELSE IF dt_ = R(0) THEN Fail("ZeroDivisionError", LoadValues(cs, fld.oil_values))
           ELSE /\ pc' = "ready" /\ err' = None
                /\ cells' = LoadValues(cs, fld.oil_values)
                /\ tStart' = t0 /\ tEnd' = cfg.tEnd /\ dt' = dt_
                /\ nt' = Trunc(RDiv(RSub(cfg.tEnd, t0), dt_))

\* a run that forgets the entry for the starting time
RunStart_noentry ==
    /\ pc = "ready"
    /\ launches = 1
    /\ pc' = "running"
    /\ step' = 0
    /\ fishing_oil_data' = <<>>
    /\ history' = <<Field(cells)>>
    /\ UNCHANGED <<meshfile, config, disk, err, cells, tStart, tEnd, nt, dt,
                   saved, launches, probe, writes, searched>>

\* run_simulation lines 88-108: the entry for the starting time.  Only the
\* first solver of a behaviour is followed into its run; a solver started
\* again from saved files is followed to the end of its construction.
RunStart ==
    /\ pc = "ready"
    /\ launches = 1
    /\ pc' = "running"
    /\ step' = 0
    /\ fishing_oil_data' = <<<<tStart, RegionTotal(cells, config.borders)>>>>
    /\ history' = <<Field(cells)>>
    /\ UNCHANGED <<meshfile, config, disk, err, cells, tStart, tEnd, nt, dt,
                   saved, launches, probe, writes, searched>>

\* run_simulation lines 111-115: one iteration of for step in range(1, nt + 1)
RunStep ==
    /\ pc = "running"
    /\ step < nt
    /\ step' = step + 1
    /\ cells' = calculate(cells, dt)
    /\ fishing_oil_data' =
          Append(fishing_oil_data,
                 <<RAdd(tStart, RMul(R(step'), dt)), RegionTotal(cells', config.borders)>>)
    /\ history' = Append(history, Field(cells'))
    /\ writes' = CommitWrites(cells, Len(cells))
    /\ UNCHANGED <<meshfile, config, disk, pc, err, tStart, tEnd, nt, dt,
                   saved, launches, probe, searched>>

\* an iteration of the loop in which calculate() raises at its j-th cell;
\* the exception leaves run_simulation and is logged by process_single_file
RunStepRaises ==
    /\ pc = "running"
    /\ step < nt
    /\ \E j \in 1..Len(cells) : cells' = calculate_raising(cells, dt, j)
    /\ pc' = "error"
    /\ err' = "StepError"
    /\ writes' = CommitWrites(cells, 0)
    /\ UNCHANGED <<meshfile, config, disk, tStart, tEnd, nt, dt, step,
                   fishing_oil_data, history, saved, launches, probe, searched>>

RemainingSteps == IF nt > step THEN nt - step ELSE 0

\* save_state
SaveState ==
    /\ disk' = [disk EXCEPT !.result = SavedFiles(cells, tStart, tEnd, config)]
    /\ saved' = [by |-> launches, field |-> Field(cells), remaining |-> RemainingSteps]

\* run_simulation lines 133-135, once the loop is exhausted
RunFinish ==
    /\ pc = "running"
    /\ step >= nt
    /\ SaveState
    /\ pc' = "done"
    /\ UNCHANGED <<meshfile, config, err, cells, tStart, tEnd, nt, dt, step,
                   fishing_oil_data, history, launches, probe, writes, searched>>

\* save_state called on a solver that has not run yet
SaveNow ==
    /\ pc = "ready"
    /\ saved.by < launches
    /\ SaveState
    /\ UNCHANGED <<meshfile, config, pc, err, cells, tStart, tEnd, nt, dt, step,
                   fishing_oil_data, history, launches, probe, writes, searched>>

\* main.py is started again on the same mesh with restartFile naming the
\* folder save_state wrote
Relaunch ==
    /\ pc \in {"ready", "done"}
    /\ saved.by = launches
    /\ launches < MaxLaunches
    /\ config' = [config EXCEPT !.restartFile = "result"]
    /\ pc' = "start"
    /\ cells' = <<>>
    /\ tStart' = R(0) /\ tEnd' = R(0) /\ nt' = 0 /\ dt' = R(0)
    /\ step' = 0
    /\ fishing_oil_data' = <<>>
    /\ history' = <<>>
    /\ writes' = <<>>
    /\ UNCHANGED <<meshfile, disk, err, saved, launches, probe, searched>>

Next ==
    SolverInit \/ RunStart \/ RunStep \/ RunStepRaises \/ RunFinish \/ SaveNow \/ Relaunch

Spec == Init /\ [][Next]_vars

(***************************************************************************)
(* The mesh alone: Mesh(filename) followed by find_neighbors(), on every   *)
(* mesh file of at most MaxCells single-cell groups over the four corners  *)
(* of the unit square                                                      *)
(***************************************************************************)
GridPoints == <<P(0, 0), P(1, 0), P(0, 1), P(1, 1)>>

PointIds == 0..(Len(GridPoints) - 1)

\* triangles with ascending vertex ids, and one that repeats a vertex id
TriangleIds ==
    {t \in [1..3 -> PointIds] : t[1] < t[2] /\ t[2] < t[3]} \cup {<<0, 1, 1>>}

LineIds == {l \in [1..2 -> PointIds] : l[2] = l[1] + 1}

MeshEntries ==
    {TriGroup(<<t>>) : t \in TriangleIds}
    \cup {LineGroup(<<l>>) : l \in LineIds}
    \cup {VertexGroup(<< <<0>> >>), TriGroup(<< <<0, 1>> >>),
          [type |-> "quad", data |-> << <<0, 1, 2, 3>> >>]}

NoConfig ==
    [nSteps |-> 1, tStart |-> R(0), tEnd |-> R(1), meshName |-> "grid",
     borders |-> << <<R(0), R(1)>>, <<R(0), R(1)>> >>, restartFile |-> ""]

Idle ==
    /\ disk = [restart_in |-> NoFolder, result |-> NoFolder]
    /\ err = None
    /\ cells = <<>>
    /\ tStart = R(0) /\ tEnd = R(0) /\ nt = 0 /\ dt = R(0)
    /\ step = 0
    /\ fishing_oil_data = <<>>
    /\ history = <<>>
    /\ saved = NoSave
    /\ launches = 0
    /\ writes = <<>>
    /\ searched = {}

InitMesh ==
    /\ \E n \in 0..MaxCells : \E g \in [1..n -> MeshEntries] :
          meshfile = [points |-> GridPoints, groups |-> g,
                      gauss |-> [k \in 1..MaxCells |-> R(1)], name |-> "grid"]
    /\ config = NoConfig
    /\ pc = "mesh_start"
    /\ probe = NoProbe
    /\ Idle

\* Mesh.__init__
MeshInit ==
    /\ pc = "mesh_start"
    /\ LET m == MeshNew(meshfile)
       IN  IF m.err # None
           THEN pc' = "error" /\ err' = m.err /\ cells' = <<>>
           ELSE pc' = "mesh_built" /\ err' = None /\ cells' = m.cells
    /\ UNCHANGED <<meshfile, config, disk, tStart, tEnd, nt, dt, step,
                   fishing_oil_data, history, saved, launches, probe, writes, searched>>

\* Mesh.find_neighbors
FindNeighbors ==
    /\ pc = "mesh_built"
    /\ cells' = find_neighbors(cells)
    /\ searched' = 1..Len(cells)
    /\ pc' = "mesh_done"
    /\ UNCHANGED <<meshfile, config, disk, err, tStart, tEnd, nt, dt, step,
                   fishing_oil_data, history, saved, launches, probe, writes>>

\* compute_neighbors called on one cell of a built mesh, as
\* tests/test_triangle.py does
ComputeNeighborsOne ==
    /\ pc = "mesh_built"
    /\ \E x \in 1..Len(cells) :
          /\ cells' = compute_neighbors_on(cells, x)
          /\ searched' = {x}
    /\ pc' = "one_searched"
    /\ UNCHANGED <<meshfile, config, disk, err, tStart, tEnd, nt, dt, step,
                   fishing_oil_data, history, saved, launches, probe, writes>>

NextMesh == MeshInit \/ FindNeighbors \/ ComputeNeighborsOne

SpecMesh == InitMesh /\ [][NextMesh]_vars

(***************************************************************************)
(* flux_function called directly, as tests/test_flux.py does               *)
(***************************************************************************)
FluxValues == {R(0), Q(2, 5), Q(1, 2), Q(4, 5), R(1)}

FluxNormals == {<<R(1), R(0)>>, <<R(-1), R(0)>>, <<R(0), R(1)>>, <<R(1), R(-2)>>}

FluxVelocities == {<<Q(1, 2), R(0)>>, <<R(0), Q(-1, 2)>>, <<R(0), Q(1, 2)>>, <<R(2), R(1)>>}

InitFlux ==
    /\ \E a \in FluxValues, b \in FluxValues, n \in FluxNormals, v \in FluxVelocities :
          probe = [a |-> a, b |-> b, n |-> n, v |-> v, called |-> FALSE, result |-> R(0)]
    /\ meshfile = [points |-> <<>>, groups |-> <<>>, gauss |-> <<>>, name |-> "grid"]
    /\ config = NoConfig
    /\ pc = "flux"
    /\ Idle

FluxCall ==
    /\ pc = "flux"
    /\ ~probe.called
    /\ probe' = [probe EXCEPT !.called = TRUE,
                              !.result = flux_function(probe.a, probe.b, probe.n, probe.v)]
    /\ UNCHANGED <<meshfile, config, disk, pc, err, cells, tStart, tEnd, nt, dt, step,
                   fishing_oil_data, history, saved, launches, writes, searched>>

NextFlux == FluxCall

SpecFlux == InitFlux /\ [][NextFlux]_vars

(***************************************************************************)
(* Properties                                                              *)
(***************************************************************************)
Last(s) == s[Len(s)]

Triangles == {k \in 1..Len(cells) : cells[k].type = "triangle"}

\* C1: flux_function(a, b, normal, velocity) is a * dot(normal, velocity)
\* when the dot product is positive and b * dot(normal, velocity) otherwise,
\* hence 0 when the dot product is 0.
FluxContract ==
    probe.called =>
        LET d == Dot(probe.n, probe.v)
        IN  /\ RLt(R(0), d) => probe.result = RMul(probe.a, d)
            /\ ~RLt(R(0), d) => probe.result = RMul(probe.b, d)
            /\ d = R(0) => probe.result = R(0)

FluxOutflowSeen ==
    /\ probe.called
    /\ RLt(R(0), Dot(probe.n, probe.v))
    /\ probe.a # probe.b
    /\ probe.result # R(0)

\* C2: the field after a call of calculate() is, for every order in which
\* the cells could be visited, the field computed cell by cell from the
\* values all cells held before the call.
SnapshotUpdate ==
    (pc = "running" /\ Len(history) >= 2) =>
        LET old == WithField(cells, history[Len(history) - 1])
        IN  \A order \in Permutations(1..Len(cells)) :
                Field(CalcVisit(old, dt, order)) = Last(history)

\* a step after which updating the live field cell by cell would differ
SnapshotMatters ==
    /\ Len(history) >= 2
    /\ Last(history) # history[Len(history) - 1]
    /\ Field(calculate_inplace(WithField(cells, history[Len(history) - 1]), dt))
          # Last(history)

ClosedMesh ==
    /\ Triangles # {}
    /\ \A k \in Triangles : \A i \in 1..3 : cells[k].neighbors[i] # -1

TriangleTotal(f) == SumSel(f, Triangles, Len(cells))

\* C3: on a closed mesh (no -1 entry in any triangle's neighbors) one call
\* of calculate() leaves the sum of value over all triangles unchanged.
ClosedMeshConserves ==
    (Len(history) >= 2 /\ ClosedMesh) =>
        TriangleTotal(Last(history)) = TriangleTotal(history[Len(history) - 1])

\* C4: a run of nSteps >= 1 steps produces nSteps + 1 entries; the first
\* entry carries the time tStart and exists before any step is applied.
SequenceLength ==
    /\ pc \in {"running", "done"} =>
          /\ Len(fishing_oil_data) = step + 1
          /\ fishing_oil_data[1][1] = tStart
    /\ (pc = "done" /\ nt >= 1) => Len(fishing_oil_data) = nt + 1
    /\ (pc = "done" /\ config.restartFile = "" /\ config.nSteps >= 1) =>
          /\ Len(fishing_oil_data) = config.nSteps + 1
          /\ fishing_oil_data[1][1] = config.tStart

RunCompleted ==
    /\ pc = "done"
    /\ nt = 2
    /\ Len(fishing_oil_data) = 3

\* the triangles whose midpoint lies in the inclusive rectangle of the configuration
InRegion ==
    {k \in Triangles :
        /\ RLe(config.borders[1][1], cells[k].midpoint[1])
        /\ RLe(cells[k].midpoint[1], config.borders[1][2])
        /\ RLe(config.borders[2][1], cells[k].midpoint[2])
        /\ RLe(cells[k].midpoint[2], config.borders[2][2])}

\* C5: entry k of the output is (tStart + k * dt, R_k), R_k being the sum of
\* value over the triangles inside the rectangle after exactly k calls of
\* calculate(); each iteration calls calculate() once and reading the region
\* total changes no cell.
OutputEntries ==
    pc \in {"running", "done"} =>
        /\ Len(history) = step + 1
        /\ Len(fishing_oil_data) = step + 1
        /\ Field(cells) = Last(history)
        /\ \A k \in 0..step :
              fishing_oil_data[k + 1] =
                  <<RAdd(tStart, RMul(R(k), dt)), SumSel(history[k + 1], InRegion, Len(cells))>>

RegionSeen ==
    /\ pc = "done"
    /\ step = 2
    /\ InRegion # {}
    /\ InRegion # Triangles
    /\ fishing_oil_data[3][2] # fishing_oil_data[1][2]
    /\ \E k \in InRegion : cells[k].midpoint[1] = config.borders[1][2]

\* C6: a fresh solver on the same mesh that loads what save_state wrote has
\* the field and the remaining step count the saving solver had.
RestartRoundTrip ==
    (pc = "ready" /\ config.restartFile = "result" /\ saved.by < launches) =>
        /\ Field(cells) = saved.field
        /\ nt = saved.remaining

\* C7: load_state fails when a restart file is absent or the number of
\* saved values differs from the number of cells of the mesh.
LoadRejectsMismatch ==
    (launches >= 1 /\ config.restartFile # ""
        /\ (\/ LoadRaises(disk[config.restartFile])
            \/ Len(disk[config.restartFile].oil_values) # Len(MeshNew(meshfile).cells)))
    => pc \in {"start", "error"}

\* C8: a configuration with nSteps <= 0 never reaches the loop of
\* run_simulation and never emits an output sequence.
NonPositiveStepsRejected ==
    config.nSteps <= 0 => (pc \notin {"running", "done"} /\ fishing_oil_data = <<>>)

\* C9: no triangle of a mesh has area 0 or a vertex count other than 3, so
\* that calculate() never divides by a zero area.
DegenerateTriangleRejected ==
    \A k \in Triangles :
        /\ Len(cells[k].point_ids) = 3
        /\ cells[k].area # R(0)
        /\ IsFinite(cells[k].oil_value)

\* C10: after find_neighbors, neighbors[i] of a triangle is -1 exactly when
\* no other cell shares exactly two vertices with it, among them both ends
\* of edge i; an entry that is not -1 names such a cell.
SharesEdge(k, i, j) ==
    LET mine   == Range(cells[k].point_ids)
        theirs == Range(cells[j].point_ids)
    IN  /\ j # k
        /\ Cardinality(mine \cap theirs) = 2
        /\ cells[k].point_ids[i] \in theirs
        /\ cells[k].point_ids[(i % 3) + 1] \in theirs

NeighborsExact ==
    pc = "mesh_done" =>
        \A k \in Triangles : \A i \in 1..3 :
            LET ngh == cells[k].neighbors[i]
            IN  /\ (ngh = -1) <=> ~(\E j \in 1..Len(cells) : SharesEdge(k, i, j))
                /\ ngh # -1 => SharesEdge(k, i, ngh + 1)

\* C11: when several cells share the same edge of a triangle, neighbors[i]
\* records the first of them in cell-creation order (the smallest id).
DistinctVertices == \A k \in Triangles : Cardinality(Range(cells[k].point_ids)) = 3

FirstMatchWins ==
    (pc = "mesh_done" /\ DistinctVertices) =>
        \A k \in Triangles : \A i \in 1..3 :
            LET ngh == cells[k].neighbors[i]
            IN  ngh # -1 => \A j \in 1..ngh : ~SharesEdge(k, i, j)

\* the cells with every neighbors entry that names a Line replaced by -1
WithoutLineNeighbors(cs) ==
    [k \in 1..Len(cs) |->
        [cs[k] EXCEPT !.neighbors =
            [i \in 1..Len(@) |-> IF @[i] >= 0 /\ cs[@[i] + 1].type = "line" THEN -1 ELSE @[i]]]]

\* C12: an edge shared with a Line adds no flux term: the value a triangle
\* has after a call of calculate() is the one computed with the Line
\* neighbors left out, and a triangle next to Lines only keeps its value.
LinesAddNoFlux ==
    Len(history) >= 2 =>
        LET old == WithField(cells, history[Len(history) - 1])
        IN  \A k \in Triangles :
                /\ Last(history)[k] = Field(calculate(WithoutLineNeighbors(old), dt))[k]
                /\ (\A i \in 1..3 : cells[k].neighbors[i] >= 0 =>
                                       cells[cells[k].neighbors[i] + 1].type = "line")
                   => Last(history)[k] = history[Len(history) - 1][k]

Lines == {k \in 1..Len(cells) : cells[k].type = "line"}

\* C13: the value of every Line cell is 0 in every state: after
\* construction, after any number of steps, and after load_state has read a
\* restart folder it accepts (here one with as many values as cells).
LineValueZero ==
    (config.restartFile = "" \/ Len(disk[config.restartFile].oil_values) = Len(cells))
        => \A k \in Lines : cells[k].oil_value = R(0)

\* the triangle and line entries of the mesh file, in source order
TriangleAndLineItems ==
    SelectSeq(Flatten(meshfile.groups), LAMBDA it : it.type \in {"triangle", "line"})

\* C14: a group of any type other than "triangle" and "line" is skipped
\* without error: construction succeeds and the cell list holds exactly the
\* triangle and line cells, in source order.
OtherGroupsSkipped ==
    (/\ pc \in {"mesh_built", "mesh_done", "error"}
     /\ \A k \in 1..Len(TriangleAndLineItems) :
           TriangleAndLineItems[k].type = "triangle" => Len(TriangleAndLineItems[k].ids) = 3)
    => /\ err = None
       /\ Len(cells) = Len(TriangleAndLineItems)
       /\ \A k \in 1..Len(cells) :
             /\ cells[k].type = TriangleAndLineItems[k].type
             /\ cells[k].point_ids = TriangleAndLineItems[k].ids

\* the cells as Solver.__init__ holds them just before it calls load_state
CellsBeforeLoad == find_neighbors(MeshNew(meshfile).cells)

\* C15: load_state changes only the starting time, the step count and the
\* cells' values: the cell list, every cell's geometry, velocity and
\* neighbors, dt and tEnd are what they were before it.
LoadStateFrame ==
    (pc = "ready" /\ config.restartFile # "") =>
        /\ LET before == CellsBeforeLoad
           IN  /\ Len(cells) = Len(before)
               /\ WithField(cells, Field(before)) = before
        /\ dt = RDiv(RSub(config.tEnd, config.tStart), R(config.nSteps))
        /\ tEnd = config.tEnd

\* a load that did replace the values, the starting time and the step count
LoadReplacedState ==
    /\ pc = "ready"
    /\ config.restartFile # ""
    /\ Field(cells) # Field(CellsBeforeLoad)
    /\ tStart # config.tStart
    /\ nt # config.nSteps

\* floor of a finite rational
Floor(x) == x[1] \div x[2]

HasCurrentTime(folder) ==
    \E k \in 1..Len(folder.simulation_data) : folder.simulation_data[k][1] = "current_time"

\* C16: after load_state has read current_time = c with tStart <= c <= tEnd,
\* the start time is c and the step count is floor((tEnd - c) / dt), dt being
\* (tEnd - tStart) / nSteps of the configuration; the resumed run emits
\* floor((tEnd - c) / dt) + 1 entries, the first at time c and the last at a
\* time not exceeding tEnd.
ResumedRun ==
    LET folder == disk[config.restartFile]
        c      == LoadTime(folder.simulation_data, config.tStart)
        dt0    == RDiv(RSub(config.tEnd, config.tStart), R(config.nSteps))
        n      == Floor(RDiv(RSub(config.tEnd, c), dt0))
    IN  (/\ pc \in {"ready", "running", "done"}
         /\ config.restartFile # ""
         /\ HasCurrentTime(folder)
         /\ RLe(config.tStart, c) /\ RLe(c, config.tEnd))
        => /\ tStart = c
           /\ nt = n
           /\ pc = "done" =>
                 /\ Len(fishing_oil_data) = n + 1
                 /\ fishing_oil_data[1][1] = c
                 /\ RLe(Last(fishing_oil_data)[1], config.tEnd)

\* the values of the triangles of cs, in cell-creation order
RECURSIVE TriangleValues(_)
TriangleValues(cs) ==
    IF cs = <<>> THEN <<>>
    ELSE LET rest == TriangleValues(SubSeq(cs, 1, Len(cs) - 1))
         IN  IF cs[Len(cs)].type = "triangle" THEN Append(rest, cs[Len(cs)].oil_value) ELSE rest

\* C17: oil_values.txt as save_state writes it holds one value per Triangle,
\* in cell-creation order, and no line for a Line cell.
SavedOnlyTriangles ==
    (saved.by >= 1 /\ saved.by = launches /\ pc \in {"ready", "done"}) =>
        /\ Len(disk.result.oil_values) = Cardinality(Triangles)
        /\ disk.result.oil_values = TriangleValues(cells)

\* C18: when calculate() fails while computing a cell's new value, every
\* cell has the value it had before that step began.
FailedStepKeepsField ==
    (pc = "error" /\ err = "StepError") => Field(cells) = Last(history)

\* a failed step, after a committed one, in which the cells computed before
\* the failure had new values that differ from their old ones
FailedStepSeen ==
    /\ pc = "error"
    /\ err = "StepError"
    /\ Len(history) >= 2
    /\ \E j \in 1..Len(cells) :
          ComputeLoop(cells, Field(cells), dt, [k \in 1..Len(cells) |-> k], j)[j] # Field(cells)[j]

\* C19: every cell's id is its position in the cell list; every neighbors
\* entry is -1 or the position of an existing cell other than the cell
\* itself; neighbors has as many entries as the cell has vertices.
IdsAndNeighborsInRange ==
    pc \in {"mesh_built", "mesh_done"} =>
        \A k \in 1..Len(cells) :
            /\ cells[k].idx = k - 1
            /\ Len(cells[k].neighbors) = Len(cells[k].point_ids)
            /\ \A i \in 1..Len(cells[k].neighbors) :
                  LET ngh == cells[k].neighbors[i]
                  IN  ngh = -1 \/ (0 <= ngh /\ ngh < Len(cells) /\ ngh # k - 1)

\* C20: time steps change only the cells' values: the number and order of
\* the cells and every cell's id, vertex ids, midpoint, area, normals,
\* velocity and neighbors stay what construction made them, and a step
\* writes each cell's value exactly once.
StepFrame ==
    pc \in {"running", "done"} =>
        /\ LET built == CellsBeforeLoad
           IN  /\ Len(cells) = Len(built)
               /\ WithField(cells, Field(built)) = built
        /\ step >= 1 => writes = [k \in 1..Len(cells) |-> 1]

\* two steps that changed the field of a mesh with neighbors
StepsChangedField ==
    /\ pc = "done"
    /\ step = 2
    /\ Field(cells) # history[1]
    /\ \E k \in Triangles : \E i \in 1..3 : cells[k].neighbors[i] >= 0
    /\ writes = [k \in 1..Len(cells) |-> 1]

\* C21: compute_neighbors called on one cell X changes X.neighbors only:
\* every other cell, also one sharing an edge with X, is as construction
\* left it, with neighbors [-1, -1, -1].
SearchIsLocal ==
    pc = "one_searched" =>
        LET built == MeshNew(meshfile).cells
        IN  /\ Len(cells) = Len(built)
            /\ \A k \in 1..Len(cells) :
                  /\ k \notin searched => cells[k] = built[k]
                  /\ k \notin searched =>
                        \A i \in 1..Len(cells[k].neighbors) : cells[k].neighbors[i] = -1
                  /\ [cells[k] EXCEPT !.neighbors = built[k].neighbors] = built[k]

\* the search on X found a triangle, which itself has not recorded X
SearchFoundTriangle ==
    /\ pc = "one_searched"
    /\ \E x \in searched : \E i \in 1..Len(cells[x].neighbors) :
          LET ngh == cells[x].neighbors[i]
          IN  /\ ngh >= 0
              /\ ngh + 1 # x
              /\ cells[ngh + 1].type = "triangle"
              /\ SharesEdge(x, i, ngh + 1)
              /\ cells[ngh + 1].neighbors = <<-1, -1, -1>>

\* the cells whose vertex set contains both p and q
CellsWithPair(p, q) ==
    {k \in 1..Len(cells) : p \in Range(cells[k].point_ids) /\ q \in Range(cells[k].point_ids)}

\* every triangle has 3 distinct vertex ids, no two cells have the same
\* vertex set, and every vertex pair belongs to at most two cells
WellFormedMesh ==
    /\ DistinctVertices
    /\ \A j \in 1..Len(cells) : \A k \in 1..Len(cells) :
          j # k => Range(cells[j].point_ids) # Range(cells[k].point_ids)
    /\ \A p \in PointIds : \A q \in PointIds :
          p # q => Cardinality(CellsWithPair(p, q)) <= 2

\* C22: in a well-formed mesh the table find_neighbors computes is symmetric
\* between triangles: when triangle A records triangle B in neighbors[i], B
\* records A in exactly one entry, the slot of the same vertex pair.
NeighborsSymmetric ==
    (pc = "mesh_done" /\ WellFormedMesh) =>
        \A a \in Triangles : \A i \in 1..3 :
            LET b == cells[a].neighbors[i] + 1
                p == cells[a].point_ids[i]
                q == cells[a].point_ids[(i % 3) + 1]
            IN  (b >= 1 /\ cells[b].type = "triangle") =>
                    LET slots == {j \in 1..3 : cells[b].neighbors[j] = a - 1}
                    IN  /\ Cardinality(slots) = 1
                        /\ \A j \in slots :
                              {cells[b].point_ids[j], cells[b].point_ids[(j % 3) + 1]} = {p, q}

\* two triangles of a well-formed mesh that record each other in different slots
SymmetricPairSeen ==
    /\ pc = "mesh_done"
    /\ WellFormedMesh
    /\ \E a \in Triangles : \E i \in 1..3 : \E j \in 1..3 :
          LET b == cells[a].neighbors[i] + 1
          IN  /\ b >= 1
              /\ cells[b].type = "triangle"
              /\ cells[b].neighbors[j] = a - 1
              /\ i # j
              /\ \E l \in Lines : TRUE

====
